---- MODULE Spec2Model ----
(***************************************************************************)
(* brema-simulator: the scoring engine of wap_calculator.py                *)
(* (find_basetime, calculate_points, format_time) and the batch loop of    *)
(* main_simulator.main().                                                   *)
(*                                                                         *)
(* Representation.                                                         *)
(*  - A Python str that the code inspects character by character (names,   *)
(*    course, gender, stroke) is a sequence of one-character strings.       *)
(*  - A text that is only handed to float() (the CSV time field, the text  *)
(*    of a basetime_seconds element) is a TLA+ string; PyFloat gives        *)
(*    float()'s result on it.                                               *)
(*  - A Python value is a record [k, v, s]: k = "fin" is the float v/256    *)
(*    (all finite floats of the model are multiples of 1/256, which the    *)
(*    binary format holds exactly); k = "nan", "inf", "ninf" are the        *)
(*    non-finite floats; k = "tiny" is a positive float below 1/256 such as *)
(*    1e-200; k = "huge" is a finite float beyond the grid such as 1e201;   *)
(*    k = "str" is the str s; k = "None" is None; any other k is a raised  *)
(*    exception of that class.                                              *)
(*  - Arithmetic on "fin" floats is fixed point with 8 fractional bits,     *)
(*    truncation standing for the rounding of the binary format.            *)
(***************************************************************************)
EXTENDS Integers, Sequences, FiniteSets, TLC

VARIABLES root, rows, pc, total_points, processed_results, failed_rows, call, ret

vars == <<root, rows, pc, total_points, processed_results, failed_rows, call, ret>>

\* Number of CSV rows the batch reads.
MaxRows == 2

-----------------------------------------------------------------------------
(* Python values *)

Fin(n) == [k |-> "fin", v |-> n, s |-> <<>>]
NaN == [k |-> "nan", v |-> 0, s |-> <<>>]
Inf == [k |-> "inf", v |-> 0, s |-> <<>>]
NInf == [k |-> "ninf", v |-> 0, s |-> <<>>]
Tiny == [k |-> "tiny", v |-> 0, s |-> <<>>]
Huge == [k |-> "huge", v |-> 0, s |-> <<>>]
PyNone == [k |-> "None", v |-> 0, s |-> <<>>]
PyStr(chars) == [k |-> "str", v |-> 0, s |-> chars]
Raise(e) == [k |-> e, v |-> 0, s |-> <<>>]

FloatKinds == {"fin", "nan", "inf", "ninf", "tiny", "huge"}
IsFloat(x) == x.k \in FloatKinds
PyInt(n) == [k |-> "int", v |-> n, s |-> <<>>]

IsExc(x) == x.k \notin (FloatKinds \cup {"str", "None", "int"})

\* A row field that the CSV reader filled with None (short row), and a column
\* that the CSV header does not have.
None == <<"None">>
Absent == <<"KeyError">>

\* str(None), as an f-string renders it.
NoneText == <<"N", "o", "n", "e">>

-----------------------------------------------------------------------------
(* str methods *)

Upper(c) ==
    CASE c = "s" -> "S"
      [] c = "l" -> "L"
      [] c = "m" -> "M"
      [] c = "e" -> "E"
      [] OTHER -> c

Lower(c) ==
    CASE c = "S" -> "s"
      [] c = "L" -> "l"
      [] c = "M" -> "m"
      [] c = "E" -> "e"
      [] OTHER -> c

StrUpper(s) == [i \in 1..Len(s) |-> Upper(s[i])]

Capitalize(s) == [i \in 1..Len(s) |-> IF i = 1 THEN Upper(s[i]) ELSE Lower(s[i])]

RECURSIVE LStrip(_)
LStrip(s) == IF s # <<>> /\ Head(s) = " " THEN LStrip(Tail(s)) ELSE s

RECURSIVE RStrip(_)
RStrip(s) ==
    IF s # <<>> /\ s[Len(s)] = " " THEN RStrip(SubSeq(s, 1, Len(s) - 1)) ELSE s

Strip(s) == RStrip(LStrip(s))

HasQuote(s) == \E i \in 1..Len(s) : s[i] = "'"

-----------------------------------------------------------------------------
(* float(text) on the texts of the model *)

PyFloat(text) ==
    CASE text = "<None>" -> Raise("TypeError")
      [] text = "abc" -> Raise("ValueError")
      [] text = "" -> Raise("ValueError")
      [] text = "nan" -> NaN
      [] text = "inf" -> Inf
      [] text = "-inf" -> NInf
      [] text = "1e-200" -> Tiny
      [] text = "0" -> Fin(0)
      [] text = "-1.5" -> Fin(-384)
      [] text = "0.125" -> Fin(32)
      [] text = "10.0" -> Fin(2560)
      [] text = "20.0" -> Fin(5120)
      [] text = "23.5" -> Fin(6016)
      [] text = "40.0" -> Fin(10240)
      [] text = "59.99609375" -> Fin(15359)
      [] text = "65.5" -> Fin(16768)
      [] text = "95.5" -> Fin(24448)
      [] text = "6000" -> Fin(1536000)
      [] OTHER -> Raise("ValueError")

-----------------------------------------------------------------------------
(* float arithmetic *)

\* x <= 0 and x < 0 on floats (every comparison with nan is False).
LessEqZero(x) == (x.k = "fin" /\ x.v <= 0) \/ x.k = "ninf"

LessZero(x) == (x.k = "fin" /\ x.v < 0) \/ x.k = "ninf"

Positive(x) == (x.k = "fin" /\ x.v > 0) \/ x.k \in {"inf", "tiny", "huge"}

\* a / b. Dividing by the float zero raises ZeroDivisionError; a quotient of a
\* grid value by a tiny value lies beyond the grid, and a quotient of a tiny
\* value by a grid value is tiny (its sign is dropped: its cube is a zero).
FDiv(a, b) ==
    CASE b.k = "fin" /\ b.v = 0 -> Raise("ZeroDivisionError")
      [] a.k = "nan" \/ b.k = "nan" -> NaN
      [] a.k \in {"inf", "ninf"} /\ b.k \in {"inf", "ninf"} -> NaN
      [] a.k \in {"inf", "ninf"} /\ Positive(b) /\ b.k # "inf" -> a
      [] a.k = "inf" /\ LessZero(b) /\ b.k = "fin" -> NInf
      [] a.k = "ninf" /\ LessZero(b) /\ b.k = "fin" -> Inf
      [] a.k = "fin" /\ b.k \in {"inf", "ninf"} -> Fin(0)
      [] a.k = "fin" /\ b.k = "fin" /\ b.v # 0 -> Fin((a.v * 256) \div b.v)
      [] a.k = "fin" /\ b.k = "tiny" -> IF a.v = 0 THEN Fin(0) ELSE Huge
      [] a.k = "tiny" /\ b.k = "tiny" -> Fin(256)
      [] a.k = "tiny" /\ b.k = "fin" /\ b.v # 0 -> Tiny
      [] a.k = "tiny" /\ b.k \in {"inf", "ninf"} -> Fin(0)

\* x ** 3. A finite result beyond the float range raises OverflowError.
FPow3(x) ==
    CASE IsExc(x) -> x
      [] x.k \in {"nan", "inf", "ninf"} -> x
      [] x.k = "huge" -> Raise("OverflowError")
      [] x.k = "tiny" -> Fin(0)
      [] x.k = "fin" -> Fin((((x.v * x.v) \div 256) * x.v) \div 256)

\* 1000 * x
FMul1000(x) ==
    CASE IsExc(x) -> x
      [] x.k \in {"nan", "inf", "ninf"} -> x
      [] x.k = "fin" -> Fin(1000 * x.v)

\* a + b
FAdd(a, b) ==
    CASE a.k = "nan" \/ b.k = "nan" -> NaN
      [] a.k = "inf" /\ b.k = "ninf" -> NaN
      [] a.k = "ninf" /\ b.k = "inf" -> NaN
      [] a.k \in {"inf", "ninf"} /\ b.k # "nan" /\ b.k \notin ({"inf", "ninf"} \ {a.k}) -> a
      [] a.k = "fin" /\ b.k \in {"inf", "ninf"} -> b
      [] a.k = "fin" /\ b.k = "fin" -> Fin(a.v + b.v)

\* x // 60 (a float) and x % 60
FFloorDiv60(x) ==
    CASE x.k \in {"nan", "inf", "ninf"} -> NaN
      [] x.k = "tiny" -> Fin(0)
      [] x.k = "fin" -> Fin((x.v \div 15360) * 256)

FMod60(x) ==
    CASE x.k \in {"nan", "inf", "ninf"} -> NaN
      [] x.k = "tiny" -> Tiny
      [] x.k = "fin" -> Fin(x.v % 15360)

\* int(x)
IntOfFloat(x) ==
    CASE x.k = "nan" -> Raise("ValueError")
      [] x.k \in {"inf", "ninf"} -> Raise("OverflowError")
      [] x.k = "tiny" -> PyInt(0)
      [] x.k = "fin" -> PyInt(x.v \div 256)

-----------------------------------------------------------------------------
(* format specifications *)

DigitChar(d) == <<"0", "1", "2", "3", "4", "5", "6", "7", "8", "9">>[d + 1]

RECURSIVE DecStr(_)
DecStr(n) == IF n < 10 THEN <<DigitChar(n)>> ELSE DecStr(n \div 10) \o <<DigitChar(n % 10)>>

RECURSIVE ZeroPad(_, _)
ZeroPad(s, width) == IF Len(s) >= width THEN s ELSE ZeroPad(<<"0">> \o s, width)

\* n:02d for n >= 0
Format02d(n) == ZeroPad(DecStr(n), 2)

\* x * 100 rounded to the nearest integer, ties to even, for x = ticks/256 >= 0
Hundredths(ticks) ==
    LET q == (ticks * 100) \div 256
        r == (ticks * 100) % 256
    IN IF r > 128 \/ (r = 128 /\ q % 2 = 1) THEN q + 1 ELSE q

\* x:05.2f for a float 0 <= x
Format052f(x) ==
    LET c == IF x.k = "tiny" THEN 0 ELSE Hundredths(x.v)
    IN ZeroPad(DecStr(c \div 100) \o <<".">> \o ZeroPad(DecStr(c % 100), 2), 5)

-----------------------------------------------------------------------------
(* The reference table: the event elements of the XML tree in document      *)
(* order, each with its course type, gender name, stroke text and the text  *)
(* of its basetime_seconds child ("<absent>": no such child; "<None>": an   *)
(* empty child, whose text is None).                                        *)

Event(type, name, stroke, leaf) ==
    [type |-> type, name |-> name, stroke |-> stroke, leaf |-> leaf]

Table ==
    << Event(<<"S">>, <<"M", "e">>, <<"a">>, "20.0"),
       Event(<<"S">>, <<"M", "e">>, <<"b">>, "40.0"),
       Event(<<"S">>, <<"M", "e">>, <<"n">>, "<absent>"),
       Event(<<"S">>, <<"M", "e">>, <<"c">>, "abc"),
       Event(<<"S">>, <<"M", "e">>, <<"d">>, "<None>"),
       Event(<<"L">>, <<"M", "e">>, <<"a">>, "23.5") >>

-----------------------------------------------------------------------------
(* wap_calculator.py *)

\* The path ./course[@type='T']/gender[@name='N']/event[stroke='S'] built by
\* interpolating the three texts between single quotes.
Query(course, gender, stroke) ==
    [type |-> StrUpper(course),
     name |-> Capitalize(gender),
     stroke |-> IF stroke = None THEN NoneText ELSE stroke]

\* A quote inside an interpolated text ends the literal early; over the
\* characters of this model what follows is never a well-formed predicate.
Malformed(query) ==
    HasQuote(query.type) \/ HasQuote(query.name) \/ HasQuote(query.stroke)

Matches(event, query) ==
    /\ event.type = query.type
    /\ event.name = query.name
    /\ event.stroke = query.stroke

\* root.find(query): the index of the first matching event, 0 for None.
ElementFind(tree, query) ==
    LET hits == {i \in 1..Len(tree) : Matches(tree[i], query)}
    IN IF hits = {} THEN 0 ELSE CHOOSE i \in hits : \A j \in hits : i <= j

find_basetime(tree, course, gender, stroke) ==
    IF course = None \/ gender = None THEN Raise("AttributeError")
    ELSE LET query == Query(course, gender, stroke)
             event_node == ElementFind(tree, query)
         IN IF Malformed(query) THEN Raise("SyntaxError")
            ELSE IF event_node # 0 /\ tree[event_node].leaf # "<absent>"
                 THEN PyFloat(tree[event_node].leaf)
                 ELSE PyNone

\* calculate_points with "input_time < 0" as its guard.
calculate_points_lt(basetime, input_time) ==
    IF LessZero(input_time) THEN Fin(0)
    ELSE FMul1000(FPow3(FDiv(basetime, input_time)))

\* calculate_points without its guard.
calculate_points_unclamped(basetime, input_time) ==
    FMul1000(FPow3(FDiv(basetime, input_time)))

calculate_points(basetime, input_time) ==
    IF LessEqZero(input_time) THEN Fin(0)
    ELSE FMul1000(FPow3(FDiv(basetime, input_time)))

format_time(seconds) ==
    IF LessZero(seconds) THEN PyStr(<<"0", "0", ":", "0", "0", ".", "0", "0">>)
    ELSE LET minutes == IntOfFloat(FFloorDiv60(seconds))
             remaining_seconds == FMod60(seconds)
         IN IF IsExc(minutes) THEN minutes
            ELSE PyStr(Format02d(minutes.v) \o <<":">> \o Format052f(remaining_seconds))

-----------------------------------------------------------------------------
(* main_simulator.py: one CSV row, a mapping from field name to text *)

Row(name, surname, course, gender, stroke, time) ==
    [name |-> name, surname |-> surname, course |-> course,
     gender |-> gender, stroke |-> stroke, time |-> time]

\* A valid row of the table's first event.
BaseRow == Row(<<"x">>, <<"y">>, <<"s">>, <<"m", "E">>, <<"a">>, "20.0")

NameTexts == {<<"x">>, <<" ">>, <<" ", "x">>}
SurnameTexts == {<<"y">>, <<>>, None}
CourseTexts == {<<"s">>, <<"S">>, <<"l">>, <<"s", "'">>}
GenderTexts == {<<"m", "E">>, <<"M", "e">>, <<"e">>}
StrokeTexts == {<<"a">>, <<"b">>, <<"z">>, <<"n">>, <<"c">>, <<"d">>, <<"a", "'">>, <<"z", "'">>}
TimeTexts ==
    {"20.0", "10.0", "59.99609375", "0", "-1.5", "-inf", "inf", "nan", "1e-200",
     "abc", "<None>", "<KeyError>"}

AllRows ==
    {Row(n, s, c, g, k, t) :
        n \in NameTexts, s \in SurnameTexts, c \in CourseTexts \cup {None},
        g \in GenderTexts, k \in StrokeTexts \cup {None}, t \in TimeTexts}

Deviations(row) ==
    Cardinality({f \in DOMAIN BaseRow : row[f] # BaseRow[f]})

\* The rows the model feeds the batch: a valid row with at most one field
\* changed, and the same with a blank name.
Rows ==
    {row \in AllRows :
        \/ Deviations(row) <= 1
        \/ row.name = <<" ">> /\ Deviations(row) <= 2}

\* except (KeyError, ValueError)
Caught(exc) == exc.k \in {"KeyError", "ValueError"}

NoResult == [name |-> <<>>, surname |-> <<>>, stroke |-> <<>>, time |-> <<>>, points |-> PyNone]

\* How the body of the loop ends for a row: the row is scored, an exception
\* reaches the except clause (rejected), or an exception leaves the loop.
Handle(exc, reason, total) ==
    [kind |-> IF Caught(exc) THEN "rejected" ELSE "abort",
     reason |-> reason, total |-> total, result |-> NoResult]

Scored(result, total) ==
    [kind |-> "scored", reason |-> "", total |-> total, result |-> result]

RowBody(tree, row, total) ==
    LET name == Strip(row.name)
        surname == Strip(row.surname)
        time == PyFloat(row.time)
        basetime == find_basetime(tree, row.course, row.gender, row.stroke)
        points == calculate_points(basetime, time)
        total1 == FAdd(total, points)
        formatted == format_time(time)
    IN IF row.name = Absent THEN Handle(Raise("KeyError"), "'name'", total)
       ELSE IF row.name = None
       THEN Handle(Raise("AttributeError"), "'NoneType' object has no attribute 'strip'", total)
       ELSE IF row.surname = Absent THEN Handle(Raise("KeyError"), "'surname'", total)
       ELSE IF row.surname = None
       THEN Handle(Raise("AttributeError"), "'NoneType' object has no attribute 'strip'", total)
       ELSE IF row.course = Absent THEN Handle(Raise("KeyError"), "'course'", total)
       ELSE IF row.gender = Absent THEN Handle(Raise("KeyError"), "'gender'", total)
       ELSE IF row.stroke = Absent THEN Handle(Raise("KeyError"), "'stroke'", total)
       ELSE IF row.time = "<KeyError>" THEN Handle(Raise("KeyError"), "'time'", total)
       ELSE IF IsExc(time) THEN Handle(time, "float() could not convert the time", total)
       ELSE IF name = <<>> \/ surname = <<>>
       THEN Handle(Raise("ValueError"), "Name or surname is missing", total)
       ELSE IF IsExc(basetime) THEN Handle(basetime, "find_basetime raised", total)
       ELSE IF basetime = PyNone
       THEN Handle(Raise("ValueError"), "Base time not found for event.", total)
       ELSE IF IsExc(points) THEN Handle(points, "Numerical result out of range", total)
       ELSE IF IsExc(formatted)
       THEN Handle(formatted, "cannot convert float NaN to integer", total1)
       ELSE Scored([name |-> name, surname |-> surname, stroke |-> row.stroke,
                    time |-> formatted.s, points |-> points], total1)

\* A list that grows at its head.
ListPrepend(list, item) == <<item>> \o list

\* list.append
ListAppend(list, item) == Append(list, item)

Failure(row_num, reason, row) == [row_num |-> row_num, reason |-> reason, row |-> row]

NoCall ==
    [op |-> "none", course |-> <<>>, gender |-> <<>>, stroke |-> <<>>,
     basetime |-> PyNone, input_time |-> PyNone]

Init ==
    /\ root = Table
    /\ rows = <<>>
    /\ pc = "loop"
    /\ total_points = Fin(0)
    /\ processed_results = <<>>
    /\ failed_rows = <<>>
    /\ call = NoCall
    /\ ret = PyNone

\* One iteration of "for row_num, row in enumerate(reader, 2)"; rows records
\* the rows read so far.
ProcessRow ==
    /\ pc = "loop"
    /\ Len(rows) < MaxRows
    /\ \E row \in Rows :
         LET row_num == Len(rows) + 2
             out == RowBody(root, row, total_points)
         IN /\ rows' = Append(rows, row)
            /\ total_points' = out.total
            /\ processed_results' =
                 IF out.kind = "scored" THEN ListAppend(processed_results, out.result)
                 ELSE processed_results
            /\ failed_rows' =
                 IF out.kind = "rejected"
                 THEN ListAppend(failed_rows, Failure(row_num, out.reason, row))
                 ELSE failed_rows
            /\ pc' = IF out.kind = "abort" THEN "aborted" ELSE "loop"
    /\ UNCHANGED <<root, call, ret>>

\* The reader is exhausted: the loop ends and the summary is produced.
EndOfInput ==
    /\ pc = "loop"
    /\ pc' = "done"
    /\ UNCHANGED <<root, rows, total_points, processed_results, failed_rows, call, ret>>

Next == ProcessRow \/ EndOfInput

Spec == Init /\ [][Next]_vars

-----------------------------------------------------------------------------
(* The scoring engine called on its own *)

BasetimeFloats == {Fin(0), Fin(5120), Fin(10240), Tiny, Inf, NaN}

InputTimeFloats ==
    {NInf, Fin(-384), Fin(0), Fin(2560), Fin(5120), Fin(10240), Fin(15359), Tiny, Inf, NaN}

SecondsFloats ==
    {NInf, Fin(-384), Fin(-1), Fin(0), Fin(1), Fin(32), Fin(96), Fin(5120), Fin(5990),
     Fin(6016), Fin(15358), Fin(15359), Fin(15360), Fin(16768), Fin(24448),
     Fin(1535999), Fin(1536000), Tiny, Inf, NaN}

CallFindBasetime ==
    /\ \E course \in CourseTexts \cup {<<"L">>}, gender \in GenderTexts, stroke \in StrokeTexts \cup {<<>>, <<"A">>} :
         /\ call' = [NoCall EXCEPT !.op = "find_basetime", !.course = course,
                                   !.gender = gender, !.stroke = stroke]
         /\ ret' = find_basetime(root, course, gender, stroke)
    /\ UNCHANGED <<root, rows, pc, total_points, processed_results, failed_rows>>

CallCalculatePoints ==
    /\ \E basetime \in BasetimeFloats, input_time \in InputTimeFloats :
         /\ call' = [NoCall EXCEPT !.op = "calculate_points", !.basetime = basetime,
                                   !.input_time = input_time]
         /\ ret' = calculate_points(basetime, input_time)
    /\ UNCHANGED <<root, rows, pc, total_points, processed_results, failed_rows>>

CallFormatTime ==
    /\ \E seconds \in SecondsFloats :
         /\ call' = [NoCall EXCEPT !.op = "format_time", !.input_time = seconds]
         /\ ret' = format_time(seconds)
    /\ UNCHANGED <<root, rows, pc, total_points, processed_results, failed_rows>>

NextEngine == CallFindBasetime \/ CallCalculatePoints \/ CallFormatTime

SpecEngine == Init /\ [][NextEngine]_vars

-----------------------------------------------------------------------------
(* Properties of the batch loop (specification Spec) *)

Last(list) == list[Len(list)]

\* The rows whose processing has ended inside the loop.
Processed == IF pc = "aborted" THEN Len(rows) - 1 ELSE Len(rows)

\* A row has just been read.
RowRead == Len(rows') = Len(rows) + 1

IsText(field) == field # None /\ field # Absent

IsBlank(field) == IsText(field) /\ Strip(field) = <<>>

BlankName(row) == IsBlank(row.name) \/ IsBlank(row.surname)

NamesGiven(row) ==
    /\ IsText(row.name) /\ Strip(row.name) # <<>>
    /\ IsText(row.surname) /\ Strip(row.surname) # <<>>

\* The row's event is in the table with a numeric base time.
EventListed(row) ==
    /\ IsText(row.course) /\ IsText(row.gender) /\ IsText(row.stroke)
    /\ \E i \in DOMAIN Table :
         /\ Table[i].type = StrUpper(row.course)
         /\ Table[i].name = Capitalize(row.gender)
         /\ Table[i].stroke = row.stroke
         /\ PyFloat(Table[i].leaf).k = "fin"

PositiveTime(row) == PyFloat(row.time).k = "fin" /\ PyFloat(row.time).v > 0

ValidRow(row) == NamesGiven(row) /\ EventListed(row) /\ PositiveTime(row)

MissingNameRow(row) == BlankName(row) /\ EventListed(row) /\ PositiveTime(row)

RECURSIVE Ascending(_)
Ascending(S) ==
    IF S = {} THEN <<>>
    ELSE LET m == CHOOSE x \in S : \A y \in S : x <= y
         IN <<m>> \o Ascending(S \ {m})

RejectedAt == {failed_rows[j].row_num - 1 : j \in DOMAIN failed_rows}

RECURSIVE SumPoints(_)
SumPoints(results) ==
    IF results = <<>> THEN Fin(0)
    ELSE FAdd(SumPoints(SubSeq(results, 1, Len(results) - 1)), Last(results).points)

\* C1: every row read ends as a Scored Result or as a Rejected Row and the loop
\* goes on to the next row; no row makes the batch abort.
C1_NoRowAbortsBatch ==
    /\ pc # "aborted"
    /\ Len(processed_results) + Len(failed_rows) = Len(rows)

\* C2: after any prefix of the rows, the Rejected Rows are the rejected rows of
\* the prefix in input order, the Scored Results are the other rows of the
\* prefix in input order, each row in exactly one of the two; and when the
\* prefix holds K rows with a missing name and otherwise valid rows, there are
\* K Rejected Rows and N-K Scored Results.
C2_OrderPreserved ==
    LET rej == Ascending(RejectedAt)
        acc == Ascending((1..Processed) \ RejectedAt)
        K == Cardinality({i \in 1..Processed : MissingNameRow(rows[i])})
    IN /\ RejectedAt \subseteq 1..Processed
       /\ Len(failed_rows) = Len(rej)
       /\ \A j \in DOMAIN failed_rows :
            /\ failed_rows[j].row_num = rej[j] + 1
            /\ failed_rows[j].row = rows[rej[j]]
       /\ Len(processed_results) = Len(acc)
       /\ \A j \in DOMAIN processed_results :
            /\ processed_results[j].name = Strip(rows[acc[j]].name)
            /\ processed_results[j].surname = Strip(rows[acc[j]].surname)
            /\ processed_results[j].stroke = rows[acc[j]].stroke
            /\ PyStr(processed_results[j].time) = format_time(PyFloat(rows[acc[j]].time))
       /\ (\A i \in 1..Processed : ValidRow(rows[i]) \/ MissingNameRow(rows[i]))
            => /\ Len(failed_rows) = K
               /\ Len(processed_results) = Processed - K

\* Two rows read, the first with a missing name and rejected, the second valid
\* and scored, its stroke not the first row's.
C2_Witness ==
    /\ Len(rows) = 2
    /\ MissingNameRow(rows[1]) /\ ValidRow(rows[2])
    /\ Len(failed_rows) = 1 /\ failed_rows[1].row_num = 2
    /\ Len(processed_results) = 1 /\ processed_results[1].stroke = <<"b">>

\* C3: the running total is the sum of the points of the Scored Results.
C3_TotalIsSum == total_points = SumPoints(processed_results)

\* C4: a step that rejects a row leaves the running total and the Scored
\* Results as they were.
C4_RejectionLeavesTotal ==
    [][Len(failed_rows') > Len(failed_rows)
         => total_points' = total_points /\ processed_results' = processed_results]_vars

\* C8: a row whose name or surname is empty after trimming is rejected with the
\* missing-name reason, whatever its other fields, and the total is unchanged.
C8_BlankNameRejected ==
    [][RowRead /\ BlankName(Last(rows'))
         => /\ Len(failed_rows') = Len(failed_rows) + 1
            /\ Last(failed_rows').reason = "Name or surname is missing"
            /\ total_points' = total_points]_vars

\* C10: a row with name and surname, a base time found and a time that parses
\* to a number <= 0 is scored with 0.0 points (its time shown as 00:00.00 when
\* negative), is not rejected, and the total keeps its value.
C10_NonPositiveTimeScoresZero ==
    [][LET row == Last(rows')
           time == PyFloat(row.time)
       IN (/\ RowRead
           /\ NamesGiven(row)
           /\ IsFloat(find_basetime(root, row.course, row.gender, row.stroke))
           /\ (time.k = "ninf" \/ (time.k = "fin" /\ time.v <= 0)))
          => /\ pc' = "loop"
             /\ failed_rows' = failed_rows
             /\ Len(processed_results') = Len(processed_results) + 1
             /\ SubSeq(processed_results', 1, Len(processed_results)) = processed_results
             /\ Last(processed_results').points = Fin(0)
             /\ Last(processed_results').stroke = row.stroke
             /\ (time.k = "ninf" \/ time.v < 0)
                  => Last(processed_results').time = <<"0", "0", ":", "0", "0", ".", "0", "0">>
             /\ total_points' = total_points]_vars

\* A valid row scored 1000 points, then a row with a negative time scored 0.
C10_Witness ==
    /\ Len(rows) = 2
    /\ rows[1] = BaseRow
    /\ rows[2] = [BaseRow EXCEPT !.time = "-1.5"]
    /\ Len(processed_results) = 2
    /\ processed_results[2].points = Fin(0)
    /\ processed_results[2].time = <<"0", "0", ":", "0", "0", ".", "0", "0">>
    /\ total_points = Fin(256000)

-----------------------------------------------------------------------------
(* Properties of the scoring engine (specification SpecEngine) *)

\* The events of the triple, course and gender normalised, stroke verbatim.
EntriesOf(course, gender, stroke) ==
    {i \in DOMAIN Table :
        /\ Table[i].type = StrUpper(course)
        /\ Table[i].name = Capitalize(gender)
        /\ Table[i].stroke = stroke}

\* C5: find_basetime returns the base time of the table's entry for the
\* triple (course upper-cased, gender capitalized, stroke the exact string),
\* and None for a triple the table has no entry for.
C5_LookupExact ==
    call.op = "find_basetime" =>
        LET entries == EntriesOf(call.course, call.gender, call.stroke)
        IN /\ \A i \in entries :
                PyFloat(Table[i].leaf).k = "fin" => ret = PyFloat(Table[i].leaf)
           /\ entries = {} => ret = PyNone

\* C6 as stated: 0.0 for every input_time <= 0 whatever the base time, and
\* exactly 1000 for calculate_points(b, b) with any positive b.
C6_AnyPositiveBase ==
    call.op = "calculate_points" =>
        /\ (call.input_time.k = "ninf" \/ (call.input_time.k = "fin" /\ call.input_time.v <= 0))
             => ret = Fin(0)
        /\ (call.input_time = call.basetime /\ call.basetime.k \in {"fin", "tiny", "inf"}
              /\ (call.basetime.k = "fin" => call.basetime.v > 0))
             => ret = Fin(256000)

\* C6 amended: 0.0 for every input_time <= 0 whatever the base time, and
\* exactly 1000 for calculate_points(b, b) with any positive finite b.
C6_FinitePositiveBase ==
    call.op = "calculate_points" =>
        /\ (call.input_time.k = "ninf" \/ (call.input_time.k = "fin" /\ call.input_time.v <= 0))
             => ret = Fin(0)
        /\ (call.input_time = call.basetime /\ call.basetime.k \in {"fin", "tiny"}
              /\ (call.basetime.k = "fin" => call.basetime.v > 0))
             => ret = Fin(256000)

\* calculate_points(20.0, 20.0) has returned 1000.
C6_Witness ==
    /\ call.op = "calculate_points"
    /\ call.basetime = Fin(5120)
    /\ call.input_time = Fin(5120)
    /\ ret = Fin(256000)

IsDigit(c) == c \in {"0", "1", "2", "3", "4", "5", "6", "7", "8", "9"}

DigitValue(c) == CHOOSE d \in 0..9 : DigitChar(d) = c

\* C7: for a non-negative time format_time returns mm:ss.cc, two digits of
\* minutes (the floor of seconds / 60), a colon, and the remainder as two
\* integer and two fractional digits, below 60.00; for a negative time it
\* returns 00:00.00.
C7_FormatShape ==
    call.op = "format_time" =>
        LET x == call.input_time
            text == ret.s
        IN /\ (x.k = "ninf" \/ (x.k = "fin" /\ x.v < 0))
                => ret = PyStr(<<"0", "0", ":", "0", "0", ".", "0", "0">>)
           /\ (x.k \in {"tiny", "inf"} \/ (x.k = "fin" /\ x.v >= 0))
                => /\ ret.k = "str"
                   /\ Len(text) = 8
                   /\ \A i \in {1, 2, 4, 5, 7, 8} : IsDigit(text[i])
                   /\ text[3] = ":"
                   /\ text[6] = "."
                   /\ 10 * DigitValue(text[4]) + DigitValue(text[5]) < 60
                   /\ x.k = "fin"
                        => 10 * DigitValue(text[1]) + DigitValue(text[2]) = x.v \div 15360

\* C9: find_basetime raises nothing, whatever the texts and the table's
\* content: it returns a base time or None, and leaves the table as it was.
C9_NeverRaises ==
    /\ root = Table
    /\ call.op = "find_basetime" => IsFloat(ret) \/ ret = PyNone

====
